---- MODULE Spec2Model ----
(***************************************************************************)
(* Typed AST overlay of crates/syntax/src/ast.rs: the single-kind wrappers *)
(* declared by asts!, the sum types declared by enums!, the accessors      *)
(* generated by ast_impl!, and the hand-written token(), kind() and        *)
(* is_public() methods, over an untyped rowan tree of kind-tagged nodes    *)
(* and tokens.                                                             *)
(***************************************************************************)
EXTENDS Naturals, Sequences, FiniteSets, TLC

VARIABLES
    tree,   \* the untyped tree: id -> [kind, tok, parent]; siblings are in document order by id
    w,      \* the typed wrapper the caller is using as receiver (an Option)
    held,   \* the typed wrappers the caller has bound and can still use
    it,     \* the AstChildren iterator the caller holds (an Option)
    taken,  \* what the held iterator has yielded so far
    restarted, \* the held iterator replaced a partly consumed one of the same accessor
    res     \* the caller's last step and what it returned

vars == <<tree, w, held, it, taken, restarted, res>>

-----------------------------------------------------------------------------
(* Bound of the explored trees *)

\* elements (nodes and tokens) below the node under test
MaxNodes == 2

-----------------------------------------------------------------------------
(* Option<T>; Panic is the outcome of an unwrap() on None, which ast.rs never does *)

None == [tag |-> "None"]

Some(x) == [tag |-> "Some", val |-> x]

Panic == [tag |-> "Panic"]

is_some(o) == o.tag = "Some"

-----------------------------------------------------------------------------
(* SyntaxKind: the kinds ast.rs names *)

NodeKinds ==
    {"LIST", "LITERAL", "IMPORT", "IMPORT_MODULE", "SOURCE_FILE", "MODULE_NAME",
     "MODULE_CONSTANT", "NAME", "PATH", "UNQUALIFIED_IMPORT", "PARAM",
     "PARAM_LIST", "TARGET", "TARGET_GROUP", "TUPLE", "CONSTRUCTOR_TYPE",
     "TUPLE_TYPE", "FN_TYPE", "VAR_TYPE"}

\* INTEGER, FLOAT, STRING (Literal::kind) and T!["pub"] (is_public)
TokenKinds == {"INTEGER", "FLOAT", "STRING", "PUB_KW"}

SyntaxKind == NodeKinds \cup TokenKinds

LiteralKind == {"Int", "Float", "String"}

-----------------------------------------------------------------------------
(* enums! and asts! invocations *)

SumTypes == {"Statement", "ConstantValue", "TypeAnnotation"}

\* the variants of a sum type, in declaration order
Variants(name) ==
    CASE name = "Statement" -> <<"ModuleConstant", "Import">>
      [] name = "ConstantValue" -> <<"Literal", "Tuple", "List">>
      [] name = "TypeAnnotation" -> <<"FnType", "VarType", "TupleType", "ConstructorType">>

SingleKinds ==
    {"List", "Literal", "Import", "ImportModule", "SourceFile", "ModuleName",
     "ModuleConstant", "Name", "Path", "UnqualifiedImport", "Param", "ParamList",
     "Target", "TargetGroup", "Tuple", "ConstructorType", "TupleType", "FnType",
     "VarType"}

Wrappers == SingleKinds \cup SumTypes

\* asts!: `$kind = $name`
KindTable(name) ==
    CASE name = "List" -> "LIST"
      [] name = "Literal" -> "LITERAL"
      [] name = "Import" -> "IMPORT"
      [] name = "ImportModule" -> "IMPORT_MODULE"
      [] name = "SourceFile" -> "SOURCE_FILE"
      [] name = "ModuleName" -> "MODULE_NAME"
      [] name = "ModuleConstant" -> "MODULE_CONSTANT"
      [] name = "Name" -> "NAME"
      [] name = "Path" -> "PATH"
      [] name = "UnqualifiedImport" -> "UNQUALIFIED_IMPORT"
      [] name = "Param" -> "PARAM"
      [] name = "ParamList" -> "PARAM_LIST"
      [] name = "Target" -> "TARGET"
      [] name = "TargetGroup" -> "TARGET_GROUP"
      [] name = "Tuple" -> "TUPLE"
      [] name = "ConstructorType" -> "CONSTRUCTOR_TYPE"
      [] name = "TupleType" -> "TUPLE_TYPE"
      [] name = "FnType" -> "FN_TYPE"
      [] name = "VarType" -> "VAR_TYPE"

\* a slip in the asts! table: Tuple declared with List's kind
KIND_TupleAsList(name) == IF name = "Tuple" THEN "LIST" ELSE KindTable(name)

\* <$name as NodeWrapper>::KIND
KIND(name) == KindTable(name)

\* the accessors ast_impl! generates: `f: C` (child), `f[k]: C` (nth), `f: [C]` (children)
Fields ==
    {[owner |-> "List", field |-> "elements", shape |-> "children", target |-> "ConstantValue", k |-> 0],
     [owner |-> "Import", field |-> "module", shape |-> "child", target |-> "ImportModule", k |-> 0],
     [owner |-> "ImportModule", field |-> "module_path", shape |-> "children", target |-> "Path", k |-> 0],
     [owner |-> "ImportModule", field |-> "as_name", shape |-> "child", target |-> "Name", k |-> 0],
     [owner |-> "ImportModule", field |-> "unqualified", shape |-> "children", target |-> "UnqualifiedImport", k |-> 0],
     [owner |-> "SourceFile", field |-> "statements", shape |-> "children", target |-> "TargetGroup", k |-> 0],
     [owner |-> "ModuleConstant", field |-> "name", shape |-> "child", target |-> "Name", k |-> 0],
     [owner |-> "ModuleConstant", field |-> "value", shape |-> "child", target |-> "ConstantValue", k |-> 0],
     [owner |-> "ModuleConstant", field |-> "annotation", shape |-> "child", target |-> "TypeAnnotation", k |-> 0],
     [owner |-> "UnqualifiedImport", field |-> "name", shape |-> "child", target |-> "Name", k |-> 0],
     [owner |-> "UnqualifiedImport", field |-> "as_name", shape |-> "nth", target |-> "Name", k |-> 1],
     [owner |-> "Param", field |-> "ty", shape |-> "child", target |-> "TypeAnnotation", k |-> 0],
     [owner |-> "ParamList", field |-> "params", shape |-> "children", target |-> "Param", k |-> 0],
     [owner |-> "Target", field |-> "name", shape |-> "child", target |-> "Name", k |-> 0],
     [owner |-> "TargetGroup", field |-> "target", shape |-> "child", target |-> "Target", k |-> 0],
     [owner |-> "TargetGroup", field |-> "statements", shape |-> "children", target |-> "Statement", k |-> 0],
     [owner |-> "Tuple", field |-> "elements", shape |-> "children", target |-> "ConstantValue", k |-> 0],
     [owner |-> "ConstructorType", field |-> "constructor", shape |-> "child", target |-> "Name", k |-> 0],
     [owner |-> "ConstructorType", field |-> "module", shape |-> "child", target |-> "ModuleName", k |-> 0],
     [owner |-> "TupleType", field |-> "field_types", shape |-> "children", target |-> "TypeAnnotation", k |-> 0],
     [owner |-> "FnType", field |-> "param_list", shape |-> "child", target |-> "ParamList", k |-> 0],
     [owner |-> "FnType", field |-> "return_", shape |-> "child", target |-> "TypeAnnotation", k |-> 0],
     [owner |-> "VarType", field |-> "name", shape |-> "child", target |-> "Name", k |-> 0]}

\* the wrappers with a hand-written token()
HasToken == {"Literal", "ModuleName", "Name", "Path"}

-----------------------------------------------------------------------------
(* The untyped tree (rowan SyntaxNode / SyntaxToken) *)

Ids == DOMAIN tree

kind(n) == tree[n].kind

\* SyntaxNode::children_with_tokens: direct children, nodes and tokens, in document order
children_with_tokens(n) ==
    LET F[i \in 0..Len(tree)] ==
            IF i = 0 THEN <<>>
            ELSE IF tree[i].parent = n THEN Append(F[i - 1], i) ELSE F[i - 1]
    IN F[Len(tree)]

\* SyntaxNode::children: the direct children that are nodes
node_children(n) == SelectSeq(children_with_tokens(n), LAMBDA c : ~tree[c].tok)


-----------------------------------------------------------------------------
(* AstNode for the wrappers.  A wrapper value is [type, variant, node]: for *)
(* a single-kind struct `$name(SyntaxNode)` variant = type; for a sum type  *)
(* `Self::$variant($variant(node))` variant names the active variant.       *)

Min(S) == CHOOSE x \in S : \A y \in S : x <= y

Max(S) == CHOOSE x \in S : \A y \in S : x >= y

\* enums! can_cast: matches!(kind, $(<$variant as NodeWrapper>::KIND)|*)
enum_can_cast(name, k) == \E i \in DOMAIN Variants(name) : k = KIND(Variants(name)[i])

\* asts! can_cast: kind == SyntaxKind::$kind
ast_can_cast(name, k) == k = KIND(name)

can_cast(name, k) ==
    IF name \in SumTypes THEN enum_can_cast(name, k) ELSE ast_can_cast(name, k)

\* a slip in the enums! cast: the last declared variant has no arm
enum_cast_DropsLast(name, n) ==
    LET vs == Variants(name)
        m == {i \in 1..(Len(vs) - 1) : KIND(vs[i]) = kind(n)}
    IN IF m = {} THEN None
       ELSE Some([type |-> name, variant |-> vs[Min(m)], node |-> n])

\* enums! cast: match node.kind() { $(KIND => Some(Self::$variant($variant(node))),)* _ => None }
\* a match takes the first arm that matches
enum_cast(name, n) ==
    LET vs == Variants(name)
        m == {i \in DOMAIN vs : KIND(vs[i]) = kind(n)}
    IN IF m = {} THEN None
       ELSE Some([type |-> name, variant |-> vs[Min(m)], node |-> n])

\* asts! cast: if node.kind() == SyntaxKind::$kind { Some(Self(node)) } else { None }
ast_cast(name, n) ==
    IF kind(n) = KIND(name)
    THEN Some([type |-> name, variant |-> name, node |-> n])
    ELSE None

cast(name, n) == IF name \in SumTypes THEN enum_cast(name, n) ELSE ast_cast(name, n)

\* a slip in syntax(): the handle of the enclosing node instead of the wrapped one
syntax_Parent(x) == IF tree[x.node].parent = 0 THEN x.node ELSE tree[x.node].parent

\* syntax(): &self.0, and for a sum type the active variant's &e.0
syntax(x) == x.node

-----------------------------------------------------------------------------
(* rowan::ast::support::{child, children} and AstChildren, as ast_impl! uses them *)

\* a slip: the first child node is wrapped without the kind check
child_Unchecked(n, C) ==
    LET cs == node_children(n)
    IN IF cs = <<>> THEN None
       ELSE Some([type |-> C,
                  variant |-> IF C \in SumTypes THEN Variants(C)[1] ELSE C,
                  node |-> cs[1]])

\* child(&self.0): parent.children().find_map(N::cast)
child(n, C) ==
    LET cs == node_children(n)
        m == {i \in DOMAIN cs : is_some(cast(C, cs[i]))}
    IN IF m = {} THEN None ELSE cast(C, cs[Min(m)])

\* children(&self.0): AstChildren::new(parent); pos counts the child nodes consumed
children(n, C) == [target |-> C, parent |-> n, pos |-> 0]

\* a slip: the iterator stops at the first child that does not cast
next_StopsAtMismatch(a) ==
    LET cs == node_children(a.parent)
    IN IF a.pos < Len(cs) /\ is_some(cast(a.target, cs[a.pos + 1]))
       THEN [item |-> cast(a.target, cs[a.pos + 1]), iter |-> [a EXCEPT !.pos = a.pos + 1]]
       ELSE [item |-> None, iter |-> [a EXCEPT !.pos = Len(cs)]]

\* AstChildren::next: self.inner.find_map(N::cast)
next(a) ==
    LET cs == node_children(a.parent)
        m == {i \in DOMAIN cs : i > a.pos /\ is_some(cast(a.target, cs[i]))}
    IN IF m = {} THEN [item |-> None, iter |-> [a EXCEPT !.pos = Len(cs)]]
       ELSE [item |-> cast(a.target, cs[Min(m)]), iter |-> [a EXCEPT !.pos = Min(m)]]

RECURSIVE iter_nth(_, _)
\* Iterator::nth(k): k items are dropped, the next one is returned
iter_nth(a, k) ==
    IF k = 0 THEN next(a).item
    ELSE IF is_some(next(a).item) THEN iter_nth(next(a).iter, k - 1) ELSE None

\* a slip: the ordinal indexes the unfiltered child nodes
nth_child_Unfiltered(n, C, k) ==
    LET cs == node_children(n)
    IN IF k < Len(cs) THEN cast(C, cs[k + 1]) ELSE None

\* `$field[$k]: $ast`: children(&self.0).nth($k)
nth_child(n, C, k) == iter_nth(children(n, C), k)

-----------------------------------------------------------------------------
(* Hand-written methods *)

\* a slip: only the first child is looked at
token_FirstChildOnly(n) ==
    LET cs == children_with_tokens(n)
    IN IF cs # <<>> /\ tree[cs[1]].tok THEN Some(cs[1]) ELSE None

\* token(): self.0.children_with_tokens().find_map(NodeOrToken::into_token)
token(n) ==
    LET cs == children_with_tokens(n)
        m == {i \in DOMAIN cs : tree[cs[i]].tok}
    IN IF m = {} THEN None ELSE Some(cs[Min(m)])

\* a slip: unwrap() in place of `?`
Literal_kind_Unwrap(n) ==
    IF ~is_some(token(n)) THEN Panic
    ELSE CASE kind(token(n).val) = "INTEGER" -> Some("Int")
           [] kind(token(n).val) = "FLOAT" -> Some("Float")
           [] kind(token(n).val) = "STRING" -> Some("String")
           [] OTHER -> None

\* a slip: a default category in place of `_ => return None`
Literal_kind_Default(n) ==
    IF ~is_some(token(n)) THEN None
    ELSE CASE kind(token(n).val) = "INTEGER" -> Some("Int")
           [] kind(token(n).val) = "FLOAT" -> Some("Float")
           [] OTHER -> Some("String")

\* Literal::kind
Literal_kind(n) ==
    IF ~is_some(token(n)) THEN None
    ELSE CASE kind(token(n).val) = "INTEGER" -> Some("Int")
           [] kind(token(n).val) = "FLOAT" -> Some("Float")
           [] kind(token(n).val) = "STRING" -> Some("String")
           [] OTHER -> None

\* a slip: the scan descends below the direct children
is_public_Descendants(n) ==
    \E i \in Ids :
        /\ tree[i].kind = "PUB_KW"
        /\ tree[i].parent # 0
        /\ (tree[i].parent = n \/ tree[tree[i].parent].parent = n)

\* ModuleConstant::is_public: children_with_tokens().find(|it| it.kind() == T!["pub"]).is_some()
\* `it` is a NodeOrToken: the kind of a child node is compared as well
is_public(n) == \E i \in DOMAIN children_with_tokens(n) : kind(children_with_tokens(n)[i]) = "PUB_KW"

-----------------------------------------------------------------------------
(* The trees explored: a SOURCE_FILE root over one node of any node kind P,  *)
(* whose children are nodes of the kinds P's accessors look for, one stray   *)
(* node of a kind they do not look for, a `pub` token and a STRING token     *)
(* (and, under a LITERAL, the other literal tokens); the first child node    *)
(* may have children of its own.  Nodes carry node kinds and tokens carry    *)
(* token kinds.                                                              *)

\* the root kind of a parsed file
RootKind == "SOURCE_FILE"

Node(k) == [kind |-> k, tok |-> FALSE]

Tok(k) == [kind |-> k, tok |-> TRUE]

KindSet(C) ==
    IF C \in SumTypes THEN {KindTable(Variants(C)[i]) : i \in DOMAIN Variants(C)}
    ELSE {KindTable(C)}

TargetKinds(P) ==
    UNION {KindSet(f.target) : f \in {g \in Fields : KindTable(g.owner) = P}}

\* a node kind that no accessor of P's wrapper accepts: a misplaced child
Stray(P) == IF "NAME" \in TargetKinds(P) \/ P = "NAME" THEN "PATH" ELSE "NAME"

Alphabet(P) ==
    {Node(k) : k \in TargetKinds(P)}
        \cup {Node(Stray(P)), Tok("PUB_KW"), Tok("STRING")}
        \cup (IF P = "LITERAL" THEN {Tok("INTEGER"), Tok("FLOAT")} ELSE {})

GrandAlphabet(P) == {Node(k) : k \in TargetKinds(P)} \cup {Tok("PUB_KW")}

SeqsOf(S, m) == [1..m -> S]

FirstNode(cs) == Min({i \in DOMAIN cs : ~cs[i].tok})

MkTree(P, cs, gs) ==
    <<[kind |-> RootKind, tok |-> FALSE, parent |-> 0],
      [kind |-> P, tok |-> FALSE, parent |-> 1]>>
        \o [i \in DOMAIN cs |-> [kind |-> cs[i].kind, tok |-> cs[i].tok, parent |-> 2]]
        \o [i \in DOMAIN gs |-> [kind |-> gs[i].kind, tok |-> gs[i].tok,
                                 parent |-> 2 + FirstNode(cs)]]

\* at most MaxNodes elements below P
Trees ==
    UNION {UNION {UNION {
        {MkTree(P, cs, gs) :
            cs \in {x \in SeqsOf(Alphabet(P), c) : g > 0 => \E i \in 1..c : ~x[i].tok},
            gs \in SeqsOf(GrandAlphabet(P), g)}
        : g \in 0..(MaxNodes - c)} : c \in 0..MaxNodes} : P \in NodeKinds}

-----------------------------------------------------------------------------
(* The state machine: a caller that keeps the wrappers it was given, uses   *)
(* one of them at a time as receiver, and holds one iterator               *)

\* `let x = ....unwrap()`: a returned wrapper is bound, None binds nothing
Bound(h, o) == IF is_some(o) THEN h \cup {o.val} ELSE h

Init ==
    /\ tree \in Trees
    /\ w = None
    /\ held = {}
    /\ it = None
    /\ taken = <<>>
    /\ restarted = FALSE
    /\ res = [op |-> "idle"]

\* the caller lets go of the wrappers and the iterator it holds
Drop ==
    /\ res.op # "idle"
    /\ w' = None
    /\ held' = {}
    /\ it' = None
    /\ taken' = <<>>
    /\ restarted' = FALSE
    /\ res' = [op |-> "idle"]
    /\ UNCHANGED tree

\* W::cast(n) on any node of the tree, by a caller that holds nothing
Cast(W, n) ==
    /\ res.op = "idle"
    /\ ~tree[n].tok
    /\ res' = [op |-> "cast", type |-> W, node |-> n, val |-> cast(W, n)]
    /\ w' = cast(W, n)
    /\ held' = Bound(held, cast(W, n))
    /\ UNCHANGED <<tree, it, taken, restarted>>

\* W::cast(x.syntax().clone()) on the held wrapper
Recast ==
    /\ is_some(w)
    /\ res' = [op |-> "recast", recv |-> w.val, node |-> syntax(w.val),
               val |-> cast(w.val.type, syntax(w.val))]
    /\ w' = cast(w.val.type, syntax(w.val))
    /\ held' = Bound(held, cast(w.val.type, syntax(w.val)))
    /\ UNCHANGED <<tree, it, taken, restarted>>

\* `$field: $ast` and `$field[$k]: $ast` on the held wrapper's struct
Field(f) ==
    /\ is_some(w)
    /\ f.owner = w.val.variant
    /\ f.shape \in {"child", "nth"}
    /\ LET r == IF f.shape = "child" THEN child(w.val.node, f.target)
                ELSE nth_child(w.val.node, f.target, f.k)
       IN /\ res' = [op |-> "field", f |-> f, recv |-> w.val, val |-> r]
          /\ held' = Bound(held, r)
    /\ UNCHANGED <<tree, w, it, taken, restarted>>

\* the caller goes on with a wrapper it bound earlier (`fst`, `snd`, `e`),
\* whatever was returned since; the iterator it holds is not touched
Take(x) ==
    /\ x \in held
    /\ w # Some(x)
    /\ w' = Some(x)
    /\ res' = [op |-> "take", recv |-> x]
    /\ UNCHANGED <<tree, held, it, taken, restarted>>

\* `$field: [$ast]` on the held wrapper's struct: a new iterator
Open(f) ==
    /\ is_some(w)
    /\ f.owner = w.val.variant
    /\ f.shape = "children"
    /\ it' = Some(children(w.val.node, f.target))
    /\ taken' = <<>>
    /\ restarted' = (/\ is_some(it)
                     /\ it.val.parent = w.val.node
                     /\ it.val.target = f.target
                     /\ taken # <<>>)
    /\ res' = [op |-> "open", f |-> f, recv |-> w.val]
    /\ UNCHANGED <<tree, w, held>>

\* AstChildren::next on the held iterator
Next_ ==
    /\ is_some(it)
    /\ LET r == next(it.val)
       IN /\ res' = [op |-> "next", val |-> r.item]
          /\ it' = Some(r.iter)
          /\ taken' = IF is_some(r.item) THEN Append(taken, r.item.val) ELSE taken
          /\ held' = Bound(held, r.item)
    /\ UNCHANGED <<tree, w, restarted>>

\* token() of Literal, ModuleName, Name, Path
Token ==
    /\ is_some(w)
    /\ w.val.variant \in HasToken
    /\ res' = [op |-> "token", recv |-> w.val, val |-> token(w.val.node)]
    /\ UNCHANGED <<tree, w, held, it, taken, restarted>>

\* Literal::kind
Kind ==
    /\ is_some(w)
    /\ w.val.variant = "Literal"
    /\ res' = [op |-> "kind", recv |-> w.val, val |-> Literal_kind(w.val.node)]
    /\ UNCHANGED <<tree, w, held, it, taken, restarted>>

\* ModuleConstant::is_public
IsPublic ==
    /\ is_some(w)
    /\ w.val.variant = "ModuleConstant"
    /\ res' = [op |-> "is_public", recv |-> w.val, val |-> is_public(w.val.node)]
    /\ UNCHANGED <<tree, w, held, it, taken, restarted>>

Next ==
    \/ \E W \in Wrappers, n \in Ids : Cast(W, n)
    \/ Recast
    \/ \E f \in Fields : Field(f)
    \/ \E x \in held : Take(x)
    \/ \E f \in Fields : Open(f)
    \/ Next_
    \/ Token
    \/ Kind
    \/ IsPublic
    \/ Drop

Spec == Init /\ [][Next]_vars

-----------------------------------------------------------------------------
(* What the properties are stated with: the tables as declared, and direct  *)
(* set-theoretic readings of "the i-th matching direct child"               *)

\* the variant of C declared for kind k
VariantFor(C, k) ==
    IF C \in SumTypes
    THEN Variants(C)[CHOOSE i \in DOMAIN Variants(C) : KindTable(Variants(C)[i]) = k]
    ELSE C

\* the direct child nodes of n whose kind is in C's kind set
MatchingChildren(n, C) ==
    {i \in Ids : tree[i].parent = n /\ ~tree[i].tok /\ tree[i].kind \in KindSet(C)}

\* the direct children of n that are tokens
TokenChildren(n) == {i \in Ids : tree[i].parent = n /\ tree[i].tok}

\* the i-th (0-based) element of a set of ids in document order, wrapped as C
IthWrapped(M, C, i) ==
    IF Cardinality(M) > i
    THEN LET x == CHOOSE y \in M : Cardinality({z \in M : z < y}) = i
         IN Some([type |-> C, variant |-> VariantFor(C, tree[x].kind), node |-> x])
    ELSE None

\* every typed wrapper the state holds
Existing ==
    (IF is_some(w) THEN {w.val} ELSE {})
        \cup held
        \cup {taken[i] : i \in DOMAIN taken}
        \cup (IF res.op \in {"cast", "recast", "field", "next"} /\ is_some(res.val)
              THEN {res.val.val} ELSE {})
        \cup (IF res.op \in {"recast", "field", "open", "take", "token", "kind", "is_public"}
              THEN {res.recv} ELSE {})

WrapperOk(x) ==
    /\ ~tree[x.node].tok
    /\ tree[x.node].kind \in KindSet(x.type)
    /\ IF x.type \in SumTypes
       THEN /\ \E i \in DOMAIN Variants(x.type) : x.variant = Variants(x.type)[i]
            /\ KindTable(x.variant) = tree[x.node].kind
       ELSE /\ x.variant = x.type
            /\ KindTable(x.type) = tree[x.node].kind

-----------------------------------------------------------------------------
(* C1  Cast soundness: W::cast(n) returns a wrapper exactly when n.kind()   *)
(* is in W's kind set, which is exactly when W::can_cast(n.kind()) holds;   *)
(* every node of the same kind gets the same outcome, whatever its children *)
CastSoundness ==
    res.op = "cast" =>
        /\ res.val.tag \in {"Some", "None"}
        /\ is_some(res.val) <=> tree[res.node].kind \in KindSet(res.type)
        /\ is_some(res.val) <=> can_cast(res.type, tree[res.node].kind)
        /\ \A m \in Ids :
               (~tree[m].tok /\ tree[m].kind = tree[res.node].kind)
                   => (is_some(cast(res.type, m)) <=> is_some(res.val))

\* a sum type cast succeeds on a LIST node that has children
CastSoundnessWitness ==
    /\ res.op = "cast"
    /\ res.type = "ConstantValue"
    /\ tree[res.node].kind = "LIST"
    /\ is_some(res.val)
    /\ \E i \in Ids : tree[i].parent = res.node

(* C2  Wrapper kind invariant: whatever casts and accessors ran, every      *)
(* wrapper that exists wraps a node of its declared kind (single-kind) or   *)
(* of a kind of its set with the matching variant active (sum type), and an *)
(* operation that finds no node of the kind returns None                    *)
WrapperKindInvariant ==
    /\ \A x \in Existing : WrapperOk(x)
    /\ res.op \in {"cast", "recast", "field", "next"} => res.val.tag \in {"Some", "None"}
    /\ (res.op = "field" /\ MatchingChildren(res.recv.node, res.f.target) = {})
           => res.val = None

\* an accessor produced a sum-type wrapper with a variant other than the first
WrapperKindWitness ==
    /\ res.op = "field"
    /\ res.f.field = "value"
    /\ is_some(res.val)
    /\ res.val.val.variant = "Tuple"

(* C3  Ordinal stability: a `field: C` (i = 0) or `field[k]: C` (i = k)     *)
(* accessor returns the i-th direct child node whose kind is in C's kind    *)
(* set, in document order, cast to C, and None when fewer than i+1 exist;   *)
(* other children are not counted and nested nodes are never returned       *)
OrdinalStability ==
    res.op = "field" =>
        /\ res.val = IthWrapped(MatchingChildren(res.recv.node, res.f.target),
                                res.f.target, res.f.k)
        /\ is_some(res.val) => tree[res.val.val.node].parent = res.recv.node

\* UnqualifiedImport.as_name returned the second Name
OrdinalStabilityWitness ==
    /\ res.op = "field"
    /\ res.f.shape = "nth"
    /\ res.f.k = 1
    /\ is_some(res.val)
    /\ Cardinality(MatchingChildren(res.recv.node, "Name")) = 2

(* C4  Child sequence: a `field: [C]` accessor yields one wrapper per       *)
(* direct child node whose kind is in C's kind set, in document order, then *)
(* ends; no nested node is yielded; with no match the sequence is empty,    *)
(* not absent; and the accessor called again starts from the first element  *)
ChildSequence ==
    /\ res.op = "open" =>
           /\ is_some(it)
           /\ taken = <<>>
           /\ it.val = children(res.recv.node, res.f.target)
    /\ is_some(it) =>
           LET M == MatchingChildren(it.val.parent, it.val.target)
           IN /\ Len(taken) <= Cardinality(M)
              /\ \A i \in DOMAIN taken :
                     /\ Some(taken[i]) = IthWrapped(M, it.val.target, i - 1)
                     /\ tree[taken[i].node].parent = it.val.parent
              /\ res.op = "next" =>
                     /\ res.val = IthWrapped(M, it.val.target,
                                             IF is_some(res.val) THEN Len(taken) - 1
                                             ELSE Len(taken))
                     /\ res.val = None => Len(taken) = Cardinality(M)

\* a sequence opened again after one element was taken yielded both elements, then ended
ChildSequenceWitness ==
    /\ restarted
    /\ res.op = "next"
    /\ res.val = None
    /\ Len(taken) = 2

(* C5  Disjointness: within a sum type no kind (of any node a tree holds)   *)
(* is the KIND of two variants, so the variant a cast chooses is the same   *)
(* whichever matching arm is tried first                                    *)
Disjointness ==
    /\ \A S \in SumTypes : \A k \in {tree[n].kind : n \in Ids} :
           Cardinality({i \in DOMAIN Variants(S) : KIND(Variants(S)[i]) = k}) <= 1
    /\ (res.op = "cast" /\ res.type \in SumTypes /\ is_some(res.val)) =>
           LET vs == Variants(res.type)
               m == {i \in DOMAIN vs : KIND(vs[i]) = tree[res.node].kind}
           IN res.val.val.variant = vs[Max(m)]

\* the cast of a sum type chose its last declared variant
DisjointnessWitness ==
    /\ res.op = "cast"
    /\ res.type = "TypeAnnotation"
    /\ is_some(res.val)
    /\ res.val.val.variant = "ConstructorType"

(* C6  Idempotent casting: W::cast(x.syntax()) succeeds and equals x, with  *)
(* the same active variant; syntax() of a freshly cast wrapper is the node  *)
(* that was cast; wrappers of one type over the same node are equal         *)
IdempotentCasting ==
    /\ res.op = "recast" =>
           /\ is_some(res.val)
           /\ res.val.val = res.recv
           /\ res.val.val.variant = res.recv.variant
           /\ res.node = res.recv.node
    /\ (res.op = "cast" /\ is_some(res.val)) => syntax(res.val.val) = res.node
    /\ \A x, y \in Existing :
           (x.type = y.type /\ syntax(x) = syntax(y)) => x = y

\* a sum-type wrapper an accessor returned was cast again from its own node
IdempotentCastingWitness ==
    /\ res.op = "recast"
    /\ res.recv.type = "ConstantValue"
    /\ res.recv.variant = "List"
    /\ tree[res.recv.node].parent = 2
    /\ is_some(res.val)

(* C7  Absence is the only failure outcome: on every tree, with children    *)
(* missing or extra, the root casts to SourceFile, every cast and accessor  *)
(* returns a value or None (or a sequence), none panics, and a field found  *)
(* absent leaves the enclosing wrapper usable                               *)
AbsenceOnly ==
    /\ res.op \in {"cast", "recast", "field", "next", "token", "kind"} =>
           res.val.tag \in {"Some", "None"}
    /\ res.op = "is_public" => res.val \in BOOLEAN
    /\ res.op = "open" => is_some(it)
    /\ (res.op = "cast" /\ res.node = 1 /\ res.type = "SourceFile") => is_some(res.val)
    /\ (res.op = "field" /\ res.val = None) => (w = Some(res.recv) /\ WrapperOk(res.recv))

\* an Import whose ImportModule is missing: module() is absent, the Import is still held
AbsenceOnlyWitness ==
    /\ res.op = "field"
    /\ res.recv.type = "Import"
    /\ res.val = None
    /\ w = Some(res.recv)

(* C8  Public predicate: is_public() is true exactly when a direct token    *)
(* child has the `pub` kind; a `pub` token nested in a child node and a     *)
(* direct child that is a node never make it true                           *)
PublicPredicate ==
    res.op = "is_public" =>
        /\ res.val \in BOOLEAN
        /\ res.val <=> \E i \in TokenChildren(res.recv.node) : tree[i].kind = "PUB_KW"

\* a constant with a child node that holds a `pub` token, and no `pub` token of its own
PublicPredicateWitness ==
    /\ res.op = "is_public"
    /\ res.val = FALSE
    /\ \E i, j \in Ids :
           /\ tree[i].parent = res.recv.node
           /\ ~tree[i].tok
           /\ tree[j].parent = i
           /\ tree[j].tok
           /\ tree[j].kind = "PUB_KW"

(* C9  Sole-token accessor: token() returns the first direct child that is  *)
(* a token, whatever its kind, skipping child nodes before it, and None     *)
(* exactly when the node has no direct token child                          *)
SoleToken ==
    res.op = "token" =>
        LET T == TokenChildren(res.recv.node)
        IN /\ res.val = (IF T = {} THEN None ELSE Some(Min(T)))
           /\ (res.val = None) <=> (T = {})

\* token() skipped a child node and returned the token after it
SoleTokenWitness ==
    /\ res.op = "token"
    /\ is_some(res.val)
    /\ \E i \in Ids : tree[i].parent = res.recv.node /\ ~tree[i].tok /\ i < res.val.val

(* C10  Literal classification: kind() is decided by the kind of the first  *)
(* direct token child alone: INTEGER is Int, FLOAT is Float, STRING is      *)
(* String, any other kind and a missing token are None                      *)
LiteralClassification ==
    res.op = "kind" =>
        LET T == TokenChildren(res.recv.node)
            k == IF T = {} THEN "none" ELSE tree[Min(T)].kind
        IN /\ res.val.tag \in {"Some", "None"}
           /\ res.val = Some("Int") <=> k = "INTEGER"
           /\ res.val = Some("Float") <=> k = "FLOAT"
           /\ res.val = Some("String") <=> k = "STRING"
           /\ res.val = None <=> k \notin {"INTEGER", "FLOAT", "STRING"}

\* a Literal whose first token is not a literal token has no category
LiteralClassificationWitness ==
    /\ res.op = "kind"
    /\ res.val = None
    /\ TokenChildren(res.recv.node) # {}
    /\ tree[Min(TokenChildren(res.recv.node))].kind = "PUB_KW"

====
